---- MODULE Spec2Model ----
(***************************************************************************)
(* Event-driven order/payment backend: the ingress route POST /orders      *)
(* (src/routes/orders.js), the outbox relay (src/publisher/                *)
(* outboxPublisher.js and its second version kept in the repository), the  *)
(* payment worker (src/worker/consumer.js, the handler of lines 368-606)   *)
(* and the mock payment service, over the four tables of the schema and    *)
(* the order-events topic.                                                 *)
(***************************************************************************)
EXTENDS Integers, Sequences, FiniteSets, TLC

\* ---------------------------------------------------------------- bounds
MaxOrders == 1      \* number of POST /orders requests
MaxWorkers == 2     \* worker instances of the group payment-group
MaxFaults == 2      \* errors raised by the database or the broker
MaxCrashes == 1     \* process crashes (relay or worker)
MaxVersion == 3     \* largest version of a row or of a predicate (GuardSpec)

\* ------------------------------------------------------- program constants
LIMIT == 10         \* rows per relay batch

\* Variant: the schema the README prints (version INTEGER DEFAULT 1).
DefaultVersionOne == 1

\* orders.version BIGINT NOT NULL DEFAULT 0
DefaultVersion == 0

Undefined == 0      \* a field that JSON.parse did not find in the message

Reqs == 1 .. MaxOrders
Workers == 1 .. MaxWorkers

\* uuidv4(): request r draws the order id r and the event id EventUuid(r);
\* the n-th uuid a worker draws is EventUuid(MaxOrders + n). No two are equal.
EventUuid(n) == MaxOrders + n

RelayPrograms == {"outboxPublisher.js", "part_001"}
PaymentStatus == {"SUCCESS", "FAILED"}

VARIABLES
    reqs,         \* ingress requests: position in router.post('/')
    orders,       \* table orders: id -> [state, version]   (committed rows)
    outbox,       \* table outbox: sequence of committed rows, index = id
    processed,    \* table processed_events: sequence of committed rows
    log,          \* topic order-events: sequence of acknowledged messages
    acked,        \* log positions whose handler returned (offset committed)
    relay,        \* the relay process: position in start/publishBatch
    relayProgram, \* which of the two relay programs of the repository runs
    workers,      \* worker instances: position in eachMessage
    payCalls,     \* number of processPayment invocations per order id
    uuids,        \* number of event uuids the workers generated so far
    faults,       \* errors raised so far
    crashes,      \* crashes so far
    incidents     \* handlers that did not run to their end: <<"ERROR", order
                  \* id>> for each ERROR line the worker logged (with
                  \* <<"PAYMENT", order id>> when the payment call raised it),
                  \* <<"CRASH", order id>> for each handler its process died in

vars == <<reqs, orders, outbox, processed, log, acked, relay, relayProgram,
          workers, payCalls, uuids, faults, crashes, incidents>>

IdleWorker == [pc |-> "idle", msg |-> 0, orderId |-> Undefined,
               eventId |-> Undefined, version |-> 0, status |-> "none"]
SleepingRelay == [pc |-> "sleep", batch |-> <<>>, i |-> 0]
NoResponse == [status |-> 0, orderId |-> Undefined, state |-> "none"]

Init ==
    /\ reqs = [r \in Reqs |-> [pc |-> "new", orderId |-> Undefined,
                              eventId |-> Undefined, res |-> NoResponse]]
    /\ orders = <<>>
    /\ outbox = <<>>
    /\ processed = <<>>
    /\ log = <<>>
    /\ acked = {}
    /\ relay = SleepingRelay
    /\ relayProgram \in RelayPrograms
    /\ workers = [w \in Workers |-> IdleWorker]
    /\ payCalls = [o \in Reqs |-> 0]
    /\ uuids = 0
    /\ faults = 0
    /\ crashes = 0
    /\ incidents = {}

\* ------------------------------------------------------------ table helpers
OrderExists(o) == o \in DOMAIN orders

\* processed_events holds a row with event_id = e: what its primary key
\* (event_id) finds when a row is inserted.
IsProcessed(e) == \E k \in 1 .. Len(processed) : processed[k].event_id = e
Terminal(s) == s \in {"PAID", "FAILED"}

\* INSERT INTO outbox (event_id, aggregate_type, aggregate_id, event_type,
\* payload): published DEFAULT false, published_at NULL.
OutboxRow(eventId, orderId, eventType) ==
    [event_id |-> eventId, aggregate_type |-> "order",
     aggregate_id |-> orderId, event_type |-> eventType,
     published |-> FALSE, published_at |-> "NULL"]

\* Table dead_letter_events (migration 002): the schema declares it and no
\* statement of the ingress, the relay or the worker inserts into it.
dead_letter_events == {}

\* Variant: the SET clause leaves version alone.
BumpForgotten(v) == v

\* version = version + 1
Bump(v) == v + 1

\* ------------------------------------------------------------------ ingress
\* Requests are identical up to their uuids, so they are numbered in the
\* order in which their handlers start.
Started(r) == \A x \in 1 .. (r - 1) : reqs[x].pc # "new"

\* Variant: the INSERT INTO orders runs on the pool, outside the transaction,
\* and is committed at once.
InsertOrderAutocommit(r) ==
    /\ reqs[r].pc = "new"
    /\ Started(r)
    /\ reqs' = [reqs EXCEPT ![r].pc = "order", ![r].orderId = r,
                            ![r].eventId = EventUuid(r)]
    /\ orders' = (r :> [state |-> "CREATED", version |-> DefaultVersion]) @@ orders
    /\ UNCHANGED <<incidents, outbox, processed, log, acked, relay,
                   relayProgram, workers, payCalls, uuids, faults, crashes>>

\* Variant: a dual write: the route sends the OrderCreated event to the
\* broker itself, inside its transaction, before the COMMIT.
InsertOrderDualWrite(r) ==
    /\ reqs[r].pc = "new"
    /\ Started(r)
    /\ reqs' = [reqs EXCEPT ![r].pc = "order", ![r].orderId = r,
                            ![r].eventId = EventUuid(r)]
    /\ log' = Append(log, [key |-> r, eventId |-> EventUuid(r),
                           type |-> "undefined", eventType |-> "OrderCreated",
                           aggregateType |-> "order", aggregateId |-> r])
    /\ UNCHANGED <<incidents, orders, outbox, processed, acked, relay,
                   relayProgram, workers, payCalls, uuids, faults, crashes>>

\* router.post('/'): uuidv4() twice, getClient, BEGIN, INSERT INTO orders
\* (inside the transaction: not visible to other connections before COMMIT).
InsertOrder(r) ==
    /\ reqs[r].pc = "new"
    /\ Started(r)
    /\ reqs' = [reqs EXCEPT ![r].pc = "order", ![r].orderId = r,
                            ![r].eventId = EventUuid(r)]
    /\ UNCHANGED <<incidents, orders, outbox, processed, log, acked, relay,
                   relayProgram, workers, payCalls, uuids, faults, crashes>>

\* INSERT INTO outbox, COMMIT, res.status(201).json({orderId, state:
\* 'CREATED'}). version is not in the column list of the INSERT: the
\* column default.
CommitOrder(r) ==
    /\ reqs[r].pc = "order"
    /\ orders' = (reqs[r].orderId :>
                      [state |-> "CREATED", version |-> DefaultVersion]) @@ orders
    /\ outbox' = Append(outbox, OutboxRow(reqs[r].eventId, reqs[r].orderId,
                                          "OrderCreated"))
    /\ reqs' = [reqs EXCEPT ![r].pc = "201",
                            ![r].res = [status |-> 201,
                                        orderId |-> reqs[r].orderId,
                                        state |-> "CREATED"]]
    /\ UNCHANGED <<incidents, processed, log, acked, relay, relayProgram, workers,
                   payCalls, uuids, faults, crashes>>

\* A statement of the transaction raises (the first INSERT, the second
\* INSERT or the COMMIT): catch, ROLLBACK, res.status(500).
RollbackOrder(r) ==
    /\ reqs[r].pc \in {"new", "order"}
    /\ Started(r)
    /\ faults < MaxFaults
    /\ faults' = faults + 1
    /\ reqs' = [reqs EXCEPT ![r].pc = "500", ![r].res.status = 500]
    /\ UNCHANGED <<incidents, orders, outbox, processed, log, acked, relay,
                   relayProgram, workers, payCalls, uuids, crashes>>

\* The connection is lost: the statement raises and, in the catch, the
\* awaited ROLLBACK raises too, so the handler ends before res.status(500):
\* the request gets no answer from the route (the server drops the
\* transaction of a lost connection).
RollbackRejects(r) ==
    /\ reqs[r].pc \in {"new", "order"}
    /\ Started(r)
    /\ faults < MaxFaults
    /\ faults' = faults + 1
    /\ reqs' = [reqs EXCEPT ![r].pc = "unanswered"]
    /\ UNCHANGED <<incidents, orders, outbox, processed, log, acked, relay,
                   relayProgram, workers, payCalls, uuids, crashes>>

submitOrder(r) ==
    \/ InsertOrder(r)
    \/ CommitOrder(r)
    \/ RollbackOrder(r)
    \/ RollbackRejects(r)

\* -------------------------------------------------------------------- relay
\* SELECT ... FROM outbox WHERE published = false ORDER BY id LIMIT 10
\* (outboxPublisher.js) / ORDER BY created_at LIMIT 10 (part_001): the ids of
\* the unpublished rows, oldest first. outbox holds the rows in commit order;
\* the rows of one aggregate are numbered, dated and committed in the same
\* order (the OrderPaid/OrderFailed row is inserted by a handler of the
\* published OrderCreated row).
RECURSIVE Unpublished(_)
Unpublished(n) ==
    IF n = 0 THEN <<>>
    ELSE IF outbox[n].published THEN Unpublished(n - 1)
         ELSE Append(Unpublished(n - 1), n)

\* Variant: the SELECT without WHERE published = false.
SelectBatchAll ==
    LET all == [i \in 1 .. Len(outbox) |-> i]
    IN  IF Len(all) <= LIMIT THEN all ELSE SubSeq(all, 1, LIMIT)

SelectBatch ==
    LET all == Unpublished(Len(outbox))
    IN  IF Len(all) <= LIMIT THEN all ELSE SubSeq(all, 1, LIMIT)

\* The message producer.send is given for a row: key and JSON value. A field
\* the program does not write is Undefined for whoever parses the value.
Envelope(row) ==
    IF relayProgram = "outboxPublisher.js"
    THEN [key |-> row.event_id, eventId |-> row.event_id,
          type |-> row.event_type, eventType |-> "undefined",
          aggregateType |-> "undefined", aggregateId |-> Undefined]
    ELSE [key |-> row.aggregate_id, eventId |-> row.event_id,
          type |-> "undefined", eventType |-> row.event_type,
          aggregateType |-> row.aggregate_type,
          aggregateId |-> row.aggregate_id]

\* for (const row of rows): the next row of the batch, or back to sleep(1000).
NextRow(rl) ==
    IF rl.i < Len(rl.batch)
    THEN [rl EXCEPT !.pc = "send", !.i = rl.i + 1]
    ELSE SleepingRelay

\* start: while(true) publishBatch(): the SELECT; an empty result returns.
RelaySelect ==
    /\ relay.pc = "sleep"
    /\ SelectBatch # <<>>
    /\ relay' = [pc |-> "send", batch |-> SelectBatch, i |-> 1]
    /\ UNCHANGED <<incidents, reqs, orders, outbox, processed, log, acked, relayProgram,
                   workers, payCalls, uuids, faults, crashes>>

\* await producer.send(...): the broker appends the message and acknowledges.
RelaySend ==
    /\ relay.pc = "send"
    /\ log' = Append(log, Envelope(outbox[relay.batch[relay.i]]))
    /\ relay' = [relay EXCEPT !.pc = "mark"]
    /\ UNCHANGED <<incidents, reqs, orders, outbox, processed, acked, relayProgram,
                   workers, payCalls, uuids, faults, crashes>>

\* Variant: the rejected send is not caught; the rejection ends the relay.
RelaySendFailsExits ==
    /\ relay.pc = "send"
    /\ faults < MaxFaults
    /\ faults' = faults + 1
    /\ relay' = [relay EXCEPT !.pc = "exited"]
    /\ UNCHANGED <<incidents, reqs, orders, outbox, processed, log, acked, relayProgram,
                   workers, payCalls, uuids, crashes>>

\* Variant: the rejected send is swallowed and the row is marked all the same.
RelaySendFailsThenMarks ==
    /\ relay.pc = "send"
    /\ faults < MaxFaults
    /\ faults' = faults + 1
    /\ relay' = [relay EXCEPT !.pc = "mark"]
    /\ UNCHANGED <<incidents, reqs, orders, outbox, processed, log, acked, relayProgram,
                   workers, payCalls, uuids, crashes>>

\* producer.send rejects: the catch inside the loop logs, the loop goes on.
RelaySendFails ==
    /\ relay.pc = "send"
    /\ faults < MaxFaults
    /\ faults' = faults + 1
    /\ relay' = NextRow(relay)
    /\ UNCHANGED <<incidents, reqs, orders, outbox, processed, log, acked, relayProgram,
                   workers, payCalls, uuids, crashes>>

\* Variant: the relay deletes the row it has sent instead of marking it
\* (DELETE FROM outbox WHERE id = $1).
RelayMarkDeletes ==
    /\ relay.pc = "mark"
    /\ outbox' = [k \in 1 .. (Len(outbox) - 1) |->
                     IF k < relay.batch[relay.i] THEN outbox[k]
                                                 ELSE outbox[k + 1]]
    /\ relay' = SleepingRelay
    /\ UNCHANGED <<incidents, reqs, orders, processed, log, acked, relayProgram,
                   workers, payCalls, uuids, faults, crashes>>

\* Variant: the UPDATE sets published and leaves published_at alone.
RelayMarkNoTimestamp ==
    /\ relay.pc = "mark"
    /\ outbox' = [outbox EXCEPT ![relay.batch[relay.i]].published = TRUE]
    /\ relay' = NextRow(relay)
    /\ UNCHANGED <<incidents, reqs, orders, processed, log, acked, relayProgram,
                   workers, payCalls, uuids, faults, crashes>>

\* UPDATE outbox SET published = true, published_at = NOW() WHERE id = $1
RelayMark ==
    /\ relay.pc = "mark"
    /\ outbox' = [outbox EXCEPT ![relay.batch[relay.i]] =
                     [@ EXCEPT !.published = TRUE, !.published_at = "NOW"]]
    /\ relay' = NextRow(relay)
    /\ UNCHANGED <<incidents, reqs, orders, processed, log, acked, relayProgram,
                   workers, payCalls, uuids, faults, crashes>>

\* Variant: the rejected UPDATE is not caught; the rejection ends the relay.
RelayMarkFailsExits ==
    /\ relay.pc = "mark"
    /\ faults < MaxFaults
    /\ faults' = faults + 1
    /\ relay' = [relay EXCEPT !.pc = "exited"]
    /\ UNCHANGED <<incidents, reqs, orders, outbox, processed, log, acked, relayProgram,
                   workers, payCalls, uuids, crashes>>

\* The UPDATE raises after the broker acknowledged: same catch.
RelayMarkFails ==
    /\ relay.pc = "mark"
    /\ faults < MaxFaults
    /\ faults' = faults + 1
    /\ relay' = NextRow(relay)
    /\ UNCHANGED <<incidents, reqs, orders, outbox, processed, log, acked, relayProgram,
                   workers, payCalls, uuids, crashes>>

\* The relay process dies inside a batch and is started again.
RelayCrash ==
    /\ relay.pc # "sleep"
    /\ crashes < MaxCrashes
    /\ crashes' = crashes + 1
    /\ relay' = SleepingRelay
    /\ UNCHANGED <<incidents, reqs, orders, outbox, processed, log, acked, relayProgram,
                   workers, payCalls, uuids, faults>>

publishBatch ==
    \/ RelaySelect
    \/ RelaySend
    \/ RelaySendFails
    \/ RelayMark
    \/ RelayMarkFails

\* ------------------------------------------------------------------- worker
\* The handler returns (normally, or through one of its two catch blocks that
\* only log): the broker client commits the offset of the message.
Return(w) ==
    /\ workers' = [workers EXCEPT ![w] = IdleWorker]
    /\ acked' = acked \cup {workers[w].msg}

\* A row of orders is locked by the open STEP 3 transaction that updated it.
Locked(o, w) ==
    \E x \in Workers \ {w} : workers[x].pc = "s3tx" /\ workers[x].orderId = o

\* Variant: the UPDATE of STEP 1 without its state predicate.
S1WhereAnyState(o) == OrderExists(o)

\* WHERE id = $1 AND state = 'CREATED'
S1Where(o) == OrderExists(o) /\ orders[o].state = "CREATED"

\* Variant: the guard without its version predicate.
S3WhereNoVersion(o, v) ==
    OrderExists(o) /\ orders[o].state = "PAYMENT_PENDING"

\* WHERE id = $1 AND state = 'PAYMENT_PENDING' AND version = $2
S3Where(o, v) ==
    OrderExists(o) /\ orders[o].state = "PAYMENT_PENDING" /\ orders[o].version = v

\* Variant: a failed payment puts the order back to CREATED.
TerminalStateResets(status) == IF status = "SUCCESS" THEN "PAID" ELSE "CREATED"

\* Variant: the else branch was copied from the first and still inserts
\* "OrderPaid".
TerminalEventAlwaysPaid(status) == "OrderPaid"

\* paymentResult.status === "SUCCESS" ? 'PAID' / "OrderPaid" : 'FAILED' / "OrderFailed"
TerminalState(status) == IF status = "SUCCESS" THEN "PAID" ELSE "FAILED"
TerminalEvent(status) == IF status = "SUCCESS" THEN "OrderPaid" ELSE "OrderFailed"

\* Variant: no dispatch on event.eventType: every message gets the
\* OrderCreated handler.
ReceiveAnyType(w) ==
    /\ workers[w].pc = "idle"
    /\ \A x \in 1 .. (w - 1) : workers[x].pc # "idle"
    /\ \E i \in (1 .. Len(log)) \ acked :
          workers' = [workers EXCEPT ![w] =
              [IdleWorker EXCEPT !.pc = "s0", !.msg = i,
                                 !.orderId = log[i].aggregateId,
                                 !.eventId = log[i].eventId]]
    /\ UNCHANGED <<incidents, reqs, orders, outbox, processed, log, acked,
                   relay, relayProgram, payCalls, uuids, faults, crashes>>

\* eachMessage is called with a message that has no committed offset:
\* JSON.parse, then the dispatch on event.eventType. Idle workers are
\* interchangeable: the lowest-numbered one takes the message.
Receive(w) ==
    /\ workers[w].pc = "idle"
    /\ \A x \in 1 .. (w - 1) : workers[x].pc # "idle"
    /\ \E i \in (1 .. Len(log)) \ acked :
          LET event == log[i]
          IN  IF event.eventType = "OrderCreated"
              THEN /\ workers' = [workers EXCEPT ![w] =
                          [IdleWorker EXCEPT !.pc = "s0", !.msg = i,
                                             !.orderId = event.aggregateId,
                                             !.eventId = event.eventId]]
                   /\ acked' = acked
              ELSE /\ workers' = workers
                   /\ acked' = acked \cup {i}
    /\ UNCHANGED <<incidents, reqs, orders, outbox, processed, log, relay, relayProgram,
                   payCalls, uuids, faults, crashes>>

\* STEP 0: INSERT INTO processed_events(event_id, worker_id) (autocommit).
\* conflict: the primary key raises 23505, the handler logs DUPLICATE_EVENT
\* and returns.
InsertProcessed(w, conflict) ==
    /\ workers[w].pc = "s0"
    /\ IF conflict
       THEN /\ Return(w)
            /\ processed' = processed
       ELSE /\ processed' = Append(processed,
                                    [event_id |-> workers[w].eventId,
                                     worker_id |-> "payment-worker"])
            /\ workers' = [workers EXCEPT ![w].pc = "s1"]
            /\ acked' = acked
    /\ UNCHANGED <<incidents, reqs, orders, outbox, log, relay, relayProgram, payCalls,
                   uuids, faults, crashes>>

\* STEP 1: UPDATE orders SET state = 'PAYMENT_PENDING', version = version + 1
\* WHERE ... RETURNING *; rowCount === 0 returns; else version =
\* result.rows[0].version. matches: the WHERE clause holds of the row.
UpdatePending(w, matches) ==
    LET o == workers[w].orderId
    IN  /\ workers[w].pc = "s1"
        /\ ~Locked(o, w)
        /\ IF matches
           THEN /\ orders' = [orders EXCEPT ![o] =
                       [state |-> "PAYMENT_PENDING", version |-> Bump(@.version)]]
                /\ workers' = [workers EXCEPT ![w].pc = "s2",
                                   ![w].version = Bump(orders[o].version)]
                /\ acked' = acked
           ELSE /\ Return(w)
                /\ orders' = orders
        /\ UNCHANGED <<incidents, reqs, outbox, processed, log, relay, relayProgram,
                       payCalls, uuids, faults, crashes>>

\* Variant: processed_events without its primary key: no INSERT conflicts.
S0NoPrimaryKey(w) == InsertProcessed(w, FALSE)

S0(w) == InsertProcessed(w, IsProcessed(workers[w].eventId))

\* Variant: STEP 1 runs on a client after BEGIN and the transaction is kept
\* open over the payment call: the update is not committed at STEP 2.
S1InTransaction(w) ==
    LET o == workers[w].orderId
    IN  /\ workers[w].pc = "s1"
        /\ ~Locked(o, w)
        /\ IF S1Where(o)
           THEN /\ workers' = [workers EXCEPT ![w].pc = "s2",
                                   ![w].version = Bump(orders[o].version)]
                /\ acked' = acked
           ELSE Return(w)
        /\ UNCHANGED <<incidents, reqs, orders, outbox, processed, log, relay,
                       relayProgram, payCalls, uuids, faults, crashes>>

S1(w) == UpdatePending(w, S1Where(workers[w].orderId))

\* STEP 2: processPayment({orderId, amount}) resolves with a status.
S2(w) ==
    /\ workers[w].pc = "s2"
    /\ \E status \in PaymentStatus :
          workers' = [workers EXCEPT ![w].pc = "s3", ![w].status = status]
    /\ payCalls' = [payCalls EXCEPT ![workers[w].orderId] = @ + 1]
    /\ UNCHANGED <<incidents, reqs, orders, outbox, processed, log, acked, relay,
                   relayProgram, uuids, faults, crashes>>

\* Variant: the catch undoes STEP 1 when the payment call raised (state back
\* to CREATED).
S2RaisesRollsBack(w) ==
    /\ workers[w].pc = "s2"
    /\ faults < MaxFaults
    /\ faults' = faults + 1
    /\ payCalls' = [payCalls EXCEPT ![workers[w].orderId] = @ + 1]
    /\ incidents' = incidents \cup {<<"ERROR", workers[w].orderId>>,
                                     <<"PAYMENT", workers[w].orderId>>}
    /\ orders' = [orders EXCEPT ![workers[w].orderId].state = "CREATED"]
    /\ Return(w)
    /\ UNCHANGED <<reqs, outbox, processed, log, relay, relayProgram,
                   uuids, crashes>>

\* STEP 2 with a payment service that throws (the mock as DEMO.md Part 4
\* Step 1 rewrites it): the await rejects, the catch of the handler logs the
\* error and the handler returns.
S2Raises(w) ==
    /\ workers[w].pc = "s2"
    /\ faults < MaxFaults
    /\ faults' = faults + 1
    /\ payCalls' = [payCalls EXCEPT ![workers[w].orderId] = @ + 1]
    /\ incidents' = incidents \cup {<<"ERROR", workers[w].orderId>>,
                                     <<"PAYMENT", workers[w].orderId>>}
    /\ Return(w)
    /\ UNCHANGED <<reqs, orders, outbox, processed, log, relay, relayProgram,
                   uuids, crashes>>

\* Variant: the guarded UPDATE runs on the pool (db.query) and is committed
\* before the outbox INSERT.
S3UpdateAutocommit(w) ==
    LET o == workers[w].orderId
    IN  /\ workers[w].pc = "s3"
        /\ ~Locked(o, w)
        /\ IF S3Where(o, workers[w].version)
           THEN /\ orders' = [orders EXCEPT ![o] =
                       [state |-> TerminalState(workers[w].status),
                        version |-> Bump(@.version)]]
                /\ workers' = [workers EXCEPT ![w].pc = "s3tx"]
                /\ acked' = acked
           ELSE /\ Return(w)
                /\ orders' = orders
        /\ UNCHANGED <<incidents, reqs, outbox, processed, log, relay,
                       relayProgram, payCalls, uuids, faults, crashes>>

\* STEP 3: getClient, BEGIN, the guarded UPDATE; rowCount === 0 rolls back
\* and returns. The update stays invisible until COMMIT.
S3Update(w) ==
    LET o == workers[w].orderId
    IN  /\ workers[w].pc = "s3"
        /\ ~Locked(o, w)
        /\ IF S3Where(o, workers[w].version)
           THEN /\ workers' = [workers EXCEPT ![w].pc = "s3tx"]
                /\ acked' = acked
           ELSE Return(w)
        /\ UNCHANGED <<incidents, reqs, orders, outbox, processed, log, relay,
                       relayProgram, payCalls, uuids, faults, crashes>>

\* STEP 3: INSERT INTO outbox (uuidv4(), "order", orderId, ...), COMMIT: the
\* update and the event become visible together; the handler returns.
S3Commit(w) ==
    LET o == workers[w].orderId
    IN  /\ workers[w].pc = "s3tx"
        /\ orders' = [orders EXCEPT ![o] =
               [state |-> TerminalState(workers[w].status),
                version |-> Bump(@.version)]]
        /\ outbox' = Append(outbox, OutboxRow(EventUuid(MaxOrders + uuids + 1), o,
                                              TerminalEvent(workers[w].status)))
        /\ uuids' = uuids + 1
        /\ Return(w)
        /\ UNCHANGED <<incidents, reqs, processed, log, relay, relayProgram, payCalls,
                       faults, crashes>>

\* Variant: the catch of the handler rethrows: the broker client gets the
\* exception and does not commit the offset.
HandlerErrorRethrows(w) ==
    /\ workers[w].pc \in {"s0", "s1", "s3", "s3tx"}
    /\ faults < MaxFaults
    /\ faults' = faults + 1
    /\ incidents' = incidents \cup {<<"ERROR", workers[w].orderId>>}
    /\ workers' = [workers EXCEPT ![w] = IdleWorker]
    /\ UNCHANGED <<reqs, orders, outbox, processed, log, acked, relay,
                   relayProgram, payCalls, uuids, crashes>>

\* A database statement of the handler raises: inside the STEP 3 transaction
\* the inner catch rolls back and rethrows; the catch of the handler logs
\* the error (type: "ERROR", orderId) and the handler returns.
HandlerError(w) ==
    /\ workers[w].pc \in {"s0", "s1", "s3", "s3tx"}
    /\ faults < MaxFaults
    /\ faults' = faults + 1
    /\ incidents' = incidents \cup {<<"ERROR", workers[w].orderId>>}
    /\ Return(w)
    /\ UNCHANGED <<reqs, orders, outbox, processed, log, relay, relayProgram,
                   payCalls, uuids, crashes>>

\* The worker process dies inside the handler: its open transaction is rolled
\* back, the offset is not committed, the message is delivered again.
WorkerCrash(w) ==
    /\ workers[w].pc # "idle"
    /\ crashes < MaxCrashes
    /\ crashes' = crashes + 1
    /\ incidents' = incidents \cup {<<"CRASH", workers[w].orderId>>}
    /\ workers' = [workers EXCEPT ![w] = IdleWorker]
    /\ UNCHANGED <<reqs, orders, outbox, processed, log, acked, relay,
                   relayProgram, payCalls, uuids, faults>>

\* Variant: a handler without idempotency: the duplicate key is not detected
\* and STEP 1 updates the order whatever its state.
eachMessageNotIdempotent(w) ==
    \/ Receive(w)
    \/ InsertProcessed(w, FALSE)
    \/ UpdatePending(w, OrderExists(workers[w].orderId))
    \/ S2(w)
    \/ S2Raises(w)
    \/ S3Update(w)
    \/ S3Commit(w)
    \/ HandlerError(w)

eachMessage(w) ==
    \/ Receive(w)
    \/ S0(w)
    \/ S1(w)
    \/ S2(w)
    \/ S2Raises(w)
    \/ S3Update(w)
    \/ S3Commit(w)
    \/ HandlerError(w)

Next ==
    \/ \E r \in Reqs : submitOrder(r)
    \/ publishBatch
    \/ RelayCrash
    \/ \E w \in Workers : eachMessage(w)
    \/ \E w \in Workers : WorkerCrash(w)

Spec == Init /\ [][Next]_vars

\* ------------------------------------------------------------- specifications
\* The steps of the relay that are its own code (no error, no crash).
RelayStep == RelaySelect \/ RelaySend \/ RelayMark

\* The steps of a worker that are its own code.
WorkerStep(w) ==
    Receive(w) \/ S0(w) \/ S1(w) \/ S2(w) \/ S3Update(w) \/ S3Commit(w)

\* The relay loop keeps being scheduled (while(true) ... sleep(1000)) and is
\* started again after a crash; the broker client keeps calling eachMessage
\* and every awaited call of the handler settles; errors and crashes are
\* finite in number.
LiveSpec ==
    /\ Spec
    /\ WF_vars(RelayStep)
    /\ \A w \in Workers : WF_vars(WorkerStep(w))

\* The guarded UPDATE of STEP 3 on its own: the order rows hold any state
\* and any version (rows written directly, as Test 4 of orderFlow.test.js
\* writes them), and every worker is at STEP 3 with a payment result and a
\* version of its own; the workers then run the rest of their handler.
OrderStates == {"CREATED", "PAYMENT_PENDING", "PAID", "FAILED"}

GuardInit ==
    /\ reqs = [r \in Reqs |->
                 [pc |-> "201", orderId |-> r, eventId |-> EventUuid(r),
                  res |-> [status |-> 201, orderId |-> r, state |-> "CREATED"]]]
    /\ orders \in [Reqs -> [state : OrderStates, version : 0 .. MaxVersion]]
    /\ outbox = [r \in Reqs |->
                   [OutboxRow(EventUuid(r), r, "OrderCreated")
                       EXCEPT !.published = TRUE, !.published_at = "NOW"]]
    /\ processed = [r \in Reqs |->
                      [event_id |-> EventUuid(r), worker_id |-> "payment-worker"]]
    /\ relayProgram = "part_001"
    /\ log = [w \in Workers |-> Envelope(outbox[((w - 1) % MaxOrders) + 1])]
    /\ acked = {}
    /\ relay = SleepingRelay
    /\ workers \in [Workers -> [pc : {"s3"}, msg : Workers, orderId : Reqs,
                                eventId : {EventUuid(r) : r \in Reqs},
                                version : 0 .. MaxVersion,
                                status : PaymentStatus]]
    /\ \A w \in Workers :
          /\ workers[w].msg = w
          /\ workers[w].orderId = log[w].aggregateId
          /\ workers[w].eventId = log[w].eventId
    /\ payCalls = [o \in Reqs |-> 1]
    /\ uuids = 0
    /\ faults = 0
    /\ crashes = 0
    /\ incidents = {}

GuardNext == \E w \in Workers : S3Update(w) \/ S3Commit(w)

GuardSpec == GuardInit /\ [][GuardNext]_vars

\* The two conditional updates on their own: the order rows hold any state
\* and any version, every worker has inserted its processed_events row and
\* is either at STEP 1 or at STEP 3 (with the version STEP 1 returned to it
\* and a payment result), and runs the rest of its handler.
ConflictInit ==
    /\ reqs = [r \in Reqs |->
                 [pc |-> "201", orderId |-> r, eventId |-> EventUuid(r),
                  res |-> [status |-> 201, orderId |-> r, state |-> "CREATED"]]]
    /\ orders \in [Reqs -> [state : OrderStates, version : 0 .. MaxVersion]]
    /\ outbox = [r \in Reqs |->
                   [OutboxRow(EventUuid(r), r, "OrderCreated")
                       EXCEPT !.published = TRUE, !.published_at = "NOW"]]
    /\ processed = [r \in Reqs |->
                      [event_id |-> EventUuid(r), worker_id |-> "payment-worker"]]
    /\ relayProgram = "part_001"
    /\ log = [w \in Workers |-> Envelope(outbox[((w - 1) % MaxOrders) + 1])]
    /\ acked = {}
    /\ relay = SleepingRelay
    /\ workers \in [Workers -> [pc : {"s1", "s3"}, msg : Workers, orderId : Reqs,
                                eventId : {EventUuid(r) : r \in Reqs},
                                version : 0 .. MaxVersion,
                                status : PaymentStatus \cup {"none"}]]
    /\ \A w \in Workers :
          /\ workers[w].msg = w
          /\ workers[w].orderId = log[w].aggregateId
          /\ workers[w].eventId = log[w].eventId
          /\ workers[w].pc = "s1" =>
                workers[w].version = 0 /\ workers[w].status = "none"
          /\ workers[w].pc = "s3" => workers[w].status \in PaymentStatus
    /\ payCalls = [o \in Reqs |-> 0]
    /\ uuids = 0
    /\ faults = 0
    /\ crashes = 0
    /\ incidents = {}

ConflictNext ==
    \E w \in Workers : S1(w) \/ S2(w) \/ S3Update(w) \/ S3Commit(w)

ConflictSpec == ConflictInit /\ [][ConflictNext]_vars

\* ------------------------------------------------------------------- helpers
Rows == 1 .. Len(outbox)
Msgs == 1 .. Len(log)
HasRow(o, types) ==
    \E i \in Rows : outbox[i].aggregate_id = o /\ outbox[i].event_type \in types
InLog(e) == \E j \in Msgs : log[j].eventId = e
Copies(e) == Cardinality({j \in Msgs : log[j].eventId = e})
Handling(w) == workers[w].pc # "idle"

\* --------------------------------------------------------------------- claims

\* C1: in every reachable state an order row exists if and only if an outbox
\* row with event_type OrderCreated and aggregate_id equal to the order's id
\* exists, also after a failure between the two inserts of POST /orders.
C1_OrderIffOrderCreatedRow ==
    \A o \in Reqs : OrderExists(o) <=> HasRow(o, {"OrderCreated"})

\* C1 witness: a request committed, its order and its OrderCreated row exist.
C1_Witness ==
    \E r \in Reqs : reqs[r].pc = "201" /\ OrderExists(r)
                    /\ HasRow(r, {"OrderCreated"})

C3_ReplayChangesNothing ==
    [][\A w \in Workers :
          ( /\ Handling(w)
            /\ IsProcessed(workers[w].eventId)
            /\ OrderExists(workers[w].orderId)
            /\ Terminal(orders[workers[w].orderId].state)
            /\ workers'[w] # workers[w] )
          => (orders' = orders /\ outbox' = outbox /\ payCalls' = payCalls)]_vars

\* C3 witness: a worker holds, not yet handled, an OrderCreated envelope
\* whose event is processed and whose order is PAID or FAILED.
C3_Witness ==
    \E w \in Workers :
        /\ workers[w].pc = "s0"
        /\ IsProcessed(workers[w].eventId)
        /\ OrderExists(workers[w].orderId)
        /\ Terminal(orders[workers[w].orderId].state)

\* C4: every change of an order's state is CREATED -> PAYMENT_PENDING,
\* PAYMENT_PENDING -> PAID or PAYMENT_PENDING -> FAILED; no order row is
\* removed; PAID and FAILED are never left.
C4_Transitions ==
    [][\A o \in DOMAIN orders :
          /\ o \in DOMAIN orders'
          /\ orders'[o].state # orders[o].state =>
                <<orders[o].state, orders'[o].state>> \in
                    { <<"CREATED", "PAYMENT_PENDING">>,
                      <<"PAYMENT_PENDING", "PAID">>,
                      <<"PAYMENT_PENDING", "FAILED">> }]_vars

\* C4 witness: an order is FAILED while a second delivery of its event is
\* still to be handled.
C4_Witness ==
    \E w \in Workers :
        /\ Handling(w)
        /\ OrderExists(workers[w].orderId)
        /\ orders[workers[w].orderId].state = "FAILED"

\* C5: every change of an order row increases its version by exactly 1.
C5_VersionPlusOne ==
    [][\A o \in DOMAIN orders :
          (o \in DOMAIN orders' /\ orders'[o] # orders[o]) =>
              orders'[o].version = orders[o].version + 1]_vars

\* C5 witness: an order was updated twice.
C5_Witness ==
    \E o \in DOMAIN orders : orders[o].state = "PAID" /\ orders[o].version = 2

\* C6: a processed_events row for the OrderCreated event of an order exists
\* if and only if the order is PAID or FAILED.
C6_ProcessedIffTerminal ==
    \A i \in Rows :
        outbox[i].event_type = "OrderCreated" =>
            (IsProcessed(outbox[i].event_id)
                <=> Terminal(orders[outbox[i].aggregate_id].state))

\* C7: every order that is PAID or FAILED has an OrderPaid or OrderFailed
\* outbox row.
C7_TerminalHasEvent ==
    \A o \in DOMAIN orders :
        Terminal(orders[o].state) => HasRow(o, {"OrderPaid", "OrderFailed"})

\* C7 witness: an order is PAID and its OrderPaid row exists.
C7_Witness ==
    \E o \in DOMAIN orders :
        orders[o].state = "PAID" /\ HasRow(o, {"OrderPaid"})

\* C8: every outbox row with published = true has a message carrying its
\* event_id in the log; a row the relay is about to send or to mark is still
\* unpublished, so a crash there leaves it to be selected again.
C8_PublishedIsInLog ==
    /\ \A i \in Rows : outbox[i].published => InLog(outbox[i].event_id)
    /\ relay.pc \in {"send", "mark"} => ~outbox[relay.batch[relay.i]].published

\* C8 witness: the relay crashed between the acknowledgement and the mark of
\* a row; the row was sent again and is now published.
C8_Witness ==
    /\ crashes > 0
    /\ faults = 0
    /\ workers = [w \in Workers |-> IdleWorker]
    /\ acked = {}
    /\ \E i \in Rows : outbox[i].published /\ Copies(outbox[i].event_id) = 2

\* C9: every committed outbox row is eventually in the log, whatever the
\* (finitely many) relay crashes, broker errors and database errors.
C9_EventuallyInLog ==
    \A n \in 1 .. (MaxOrders + MaxOrders) :
        (Len(outbox) >= n) ~> (Len(outbox) >= n /\ InLog(outbox[n].event_id))

\* C9 witness: the relay met an error and crashed, the ingress and the
\* workers met none, and every committed row is in the log.
C9_Witness ==
    /\ faults > 0
    /\ crashes > 0
    /\ workers = [w \in Workers |-> IdleWorker]
    /\ acked = {}
    /\ \A r \in Reqs : reqs[r].pc = "201"
    /\ \A i \in Rows : InLog(outbox[i].event_id)

\* C10: every accepted order eventually is PAID or FAILED when nothing
\* crashes and no error is raised.
C10_EventuallyTerminal ==
    \A o \in Reqs :
        OrderExists(o) ~>
            \/ OrderExists(o) /\ Terminal(orders[o].state)
            \/ faults > 0
            \/ crashes > 0

\* ------------------------------------------------------- helpers (C11 ...)
\* The OrderPaid/OrderFailed rows of an order.
TerminalRows(o) ==
    {i \in Rows : outbox[i].aggregate_id = o
                  /\ outbox[i].event_type \in {"OrderPaid", "OrderFailed"}}

\* The acknowledged deliveries of the OrderCreated event of an order.
Handled(o) ==
    {i \in acked : log[i].eventType = "OrderCreated" /\ log[i].aggregateId = o}

\* Some handler of the order logged an error or died.
Incident(o) == <<"ERROR", o>> \in incidents \/ <<"CRASH", o>> \in incidents

\* No handler holds the order.
Quiet(o) == \A w \in Workers : Handling(w) => workers[w].orderId # o

\* The version an order has after the updates that lead to its state.
VersionOf(state) ==
    CASE state = "CREATED" -> 0
      [] state = "PAYMENT_PENDING" -> 1
      [] OTHER -> 2

Raises(w) ==
    /\ Handling(w)
    /\ workers'[w] # workers[w]
    /\ <<"ERROR", workers[w].orderId>> \in incidents' \ incidents

\* C12: when an attempt of the OrderCreated handler raises for the first
\* time, the worker runs the handler again from STEP 0 inside the same
\* delivery (it keeps the message, whose offset is not committed yet).
C12_RetryAfterError ==
    [][\A w \in Workers :
          Raises(w) => /\ workers'[w].pc = "s0"
                       /\ workers'[w].msg = workers[w].msg
                       /\ workers[w].msg \notin acked']_vars

\* C13: once a handler has given up on the OrderCreated event of an order
\* after an error, dead_letter_events holds a row keyed by the event_id of
\* that event.
C13_GivenUpIsDeadLettered ==
    \A o \in DOMAIN orders :
        (<<"ERROR", o>> \in incidents /\ Quiet(o)) =>
            reqs[o].eventId \in dead_letter_events

C15_CrashedHandlerRecovers ==
    \A o \in Reqs :
        (OrderExists(o) /\ <<"CRASH", o>> \in incidents) ~>
            \/ OrderExists(o) /\ Terminal(orders[o].state)
            \/ faults > 0

\* A step in which the process of worker w dies between the commit of
\* STEP 1 and the commit of STEP 3.
DiesAfterS1(w) ==
    /\ workers[w].pc \in {"s2", "s3", "s3tx"}
    /\ workers'[w] = IdleWorker
    /\ crashes' = crashes + 1

\* C16: when a worker process dies after STEP 1 committed and before STEP 3
\* commits, the order is left in PAYMENT_PENDING and processed_events has
\* no row for its event.
C16_CrashLeavesNoProcessedRow ==
    [][\A w \in Workers :
          DiesAfterS1(w) =>
              /\ orders'[workers[w].orderId].state = "PAYMENT_PENDING"
              /\ \A k \in 1 .. Len(processed') :
                    processed'[k].event_id # workers[w].eventId]_vars

\* C17: an order that is PAID or FAILED has version 3.
C17_TerminalVersionIsThree ==
    \A o \in DOMAIN orders : Terminal(orders[o].state) => orders[o].version = 3

RowOf(j) == CHOOSE i \in Rows : outbox[i].event_id = log[j].eventId

\* C19: the messages of one aggregate are in the log in the creation order
\* of their outbox rows: no message of an earlier row comes after a message
\* of a later row of the same aggregate.
C19_LogFollowsCreationOrder ==
    \A j1, j2 \in Msgs :
        ( /\ j1 < j2
          /\ outbox[RowOf(j1)].aggregate_id = outbox[RowOf(j2)].aggregate_id )
        => RowOf(j1) <= RowOf(j2)

\* C20: every message of the log has the aggregate_id of its outbox row as
\* its key.
C20_KeyIsAggregateId ==
    \A j \in Msgs : log[j].key = outbox[RowOf(j)].aggregate_id

\* C21: the message published for an outbox row carries the columns of the
\* row: eventId, eventType, aggregateType and aggregateId read from the
\* message are the row's event_id, event_type, aggregate_type and
\* aggregate_id (so an OrderCreated row reaches the OrderCreated handler).
C21_EnvelopeCarriesTheRow ==
    \A j \in Msgs :
        /\ log[j].eventId = outbox[RowOf(j)].event_id
        /\ log[j].eventType = outbox[RowOf(j)].event_type
        /\ log[j].aggregateType = outbox[RowOf(j)].aggregate_type
        /\ log[j].aggregateId = outbox[RowOf(j)].aggregate_id

\* C22: an outbox row has published = true if and only if its published_at
\* is not null.
C22_PublishedIffPublishedAt ==
    \A i \in Rows : outbox[i].published <=> outbox[i].published_at # "NULL"

\* C22 witness: one row is marked (published, with its published_at) while
\* a later row is still unpublished, with published_at null.
C22_Witness ==
    \E i, k \in Rows :
        /\ outbox[i].published /\ outbox[i].published_at = "NOW"
        /\ ~outbox[k].published /\ outbox[k].published_at = "NULL"

\* C23: a row with published = true keeps all its columns for ever, and no
\* message the relay appends to the log afterwards carries its event.
C23_PublishedOnce ==
    [][\A i \in Rows :
          outbox[i].published =>
              /\ i \in 1 .. Len(outbox')
              /\ outbox'[i] = outbox[i]
              /\ log' # log =>
                    log'[Len(log')].eventId # outbox[i].event_id]_vars

\* C23 witness: a row is published, was sent once, and the relay is in a
\* later tick, about to send another row.
C23_Witness ==
    \E i \in Rows :
        /\ outbox[i].published
        /\ Copies(outbox[i].event_id) = 1
        /\ relay.pc = "send"
        /\ relay.batch[relay.i] # i

Acknowledged == acked' \ acked

\* C25: no handler is ever started for a message whose eventType is not
\* OrderCreated (OrderPaid, OrderFailed, or no eventType at all), and the
\* step that acknowledges such a message changes nothing in orders, outbox
\* and processed_events and calls no payment.
C25_OtherTypesHaveNoEffect ==
    /\ [](\A w \in Workers :
            Handling(w) => log[workers[w].msg].eventType = "OrderCreated")
    /\ [][\A i \in Acknowledged :
             log[i].eventType # "OrderCreated" =>
                 /\ orders' = orders
                 /\ outbox' = outbox
                 /\ processed' = processed
                 /\ payCalls' = payCalls
                 /\ workers' = workers]_vars

\* C25 witness: an OrderPaid or OrderFailed message is acknowledged.
C25_Witness ==
    \E i \in acked : log[i].eventType \in {"OrderPaid", "OrderFailed"}

\* C26: processed_events never holds two rows with the same event_id, also
\* when several workers insert the same event; an INSERT for an event_id
\* that has its row is rejected and leaves the table as it was.
C26_OneProcessedRowPerEvent ==
    /\ [](\A k1, k2 \in 1 .. Len(processed) :
            processed[k1].event_id = processed[k2].event_id => k1 = k2)
    /\ [][\A w \in Workers :
             ( /\ workers[w].pc = "s0"
               /\ IsProcessed(workers[w].eventId)
               /\ workers'[w] # workers[w] )
             => processed' = processed]_vars

\* C26 witness: two workers hold the same event; one has inserted its row
\* and went on, the other is about to insert.
C26_Witness ==
    \E w1, w2 \in Workers :
        /\ workers[w1].pc = "s0"
        /\ workers[w2].pc \in {"s1", "s2", "s3", "s3tx"}
        /\ workers[w1].eventId = workers[w2].eventId
        /\ IsProcessed(workers[w1].eventId)

\* The handler of request r ended through its catch block.
Failed(r) == reqs[r].pc \notin {"new", "order", "201"}

\* C27: a request whose transaction failed left no order row and no outbox
\* row, and was answered 500.
C27_FailureRollsBackAndAnswers500 ==
    \A r \in Reqs :
        Failed(r) =>
            /\ reqs[r].orderId \notin DOMAIN orders
            /\ \A i \in Rows : outbox[i].event_id # reqs[r].eventId
            /\ reqs[r].res.status = 500

\* C28: once the handler has given up on an order whose payment call
\* raised, the order is FAILED and its event is in dead_letter_events.
C28_PaymentErrorEndsFailed ==
    \A o \in DOMAIN orders :
        (<<"PAYMENT", o>> \in incidents /\ Quiet(o)) =>
            /\ orders[o].state = "FAILED"
            /\ reqs[o].eventId \in dead_letter_events

\* Row i of outbox differs between the two states of a step at most in its
\* published and published_at columns.
OnlyMarked(i) ==
    outbox'[i] = [outbox[i] EXCEPT !.published = outbox'[i].published,
                                   !.published_at = outbox'[i].published_at]

C30_GuardedUpdate ==
    [][\A w \in Workers :
          workers'[w] # workers[w] =>
              LET o == workers[w].orderId
                  v == workers[w].version
              IN  /\ (workers[w].pc = "s3" /\ orders[o].version # v) =>
                        /\ orders' = orders
                        /\ workers'[w] = IdleWorker
                  /\ ( /\ workers[w].pc = "s3"
                       /\ orders[o].state = "PAYMENT_PENDING"
                       /\ orders[o].version = v ) =>
                        workers'[w].pc = "s3tx"
                  /\ workers[w].pc = "s3tx" =>
                        /\ orders[o].version = v
                        /\ orders'[o].version = v + 1
                        /\ Terminal(orders'[o].state)]_vars

\* C30 witness: an update was rejected for its version alone: its handler
\* has returned and the order is still PAYMENT_PENDING, with no outcome row.
C30_Witness ==
    \E w \in Workers :
        /\ w \in acked
        /\ workers[w] = IdleWorker
        /\ orders[log[w].aggregateId].state = "PAYMENT_PENDING"
        /\ TerminalRows(log[w].aggregateId) = {}

\* A step in which the send or the mark of a row of the batch fails.
RowFails ==
    /\ relay.pc \in {"send", "mark"}
    /\ relay' # relay
    /\ faults' = faults + 1

\* C31: when the send or the mark of a row of a batch fails, the relay
\* gives up the batch: it is back at its sleep, before the next select, and
\* no later row of the batch is sent in the same tick.
C31_ErrorAbortsBatch ==
    [][RowFails => relay' = SleepingRelay]_vars

\* The relay holds row n between its acknowledged send and its mark.
Marking(n) == relay.pc = "mark" /\ relay.batch[relay.i] = n

\* C32: a failed send, and a failed mark after an acknowledged send, leave
\* every outbox row as it was, the row of the failure with published =
\* false and published_at null, and the relay in its loop (at the next row
\* or at its sleep); a row that is unpublished, and that the relay is not
\* about to mark, is eventually sent (again).
C32_FailedRowIsRetried ==
    /\ [][RowFails =>
            /\ outbox' = outbox
            /\ ~outbox[relay.batch[relay.i]].published
            /\ outbox[relay.batch[relay.i]].published_at = "NULL"
            /\ relay'.pc \in {"send", "sleep"}]_vars
    /\ \A n \in 1 .. (MaxOrders + MaxOrders) :
          \A c \in 0 .. (MaxFaults + MaxCrashes) :
              ( /\ n <= Len(outbox)
                /\ ~outbox[n].published
                /\ ~Marking(n)
                /\ Copies(outbox[n].event_id) = c )
              ~> (n <= Len(outbox) /\ Copies(outbox[n].event_id) > c)

\* C32 witness: nothing crashed, the mark of a row failed after its send
\* was acknowledged, and the row was sent a second time and marked.
C32_Witness ==
    /\ crashes = 0
    /\ faults > 0
    /\ \E i \in Rows : outbox[i].published /\ Copies(outbox[i].event_id) = 2

\* The step of worker w changes no table, calls no payment, logs no error
\* and returns: the worker holds nothing and its message is acknowledged.
ReturnsWithoutEffect(w) ==
    /\ orders' = orders
    /\ outbox' = outbox
    /\ processed' = processed
    /\ payCalls' = payCalls
    /\ incidents' = incidents
    /\ workers'[w] = IdleWorker
    /\ workers[w].msg \in acked'

\* C33: a state conflict is a success without effect: the step of STEP 1
\* on an order that is not CREATED, and the step of STEP 3 on an order that
\* is not PAYMENT_PENDING at the version STEP 1 returned, change no table
\* (no outbox row is inserted), call no payment, log no error and return,
\* holding no transaction.
C33_ConflictIsSuccessWithoutEffect ==
    [][\A w \in Workers :
          workers'[w] # workers[w] =>
              LET o == workers[w].orderId
              IN  /\ (workers[w].pc = "s1" /\ orders[o].state # "CREATED")
                        => ReturnsWithoutEffect(w)
                  /\ ( /\ workers[w].pc = "s3"
                       /\ \/ orders[o].state # "PAYMENT_PENDING"
                          \/ orders[o].version # workers[w].version )
                        => ReturnsWithoutEffect(w)]_vars

\* C33 witness: every handler has returned on a conflict, at STEP 1 or at
\* STEP 3: the order is PAID without any payment call and any outcome row.
C33_Witness ==
    /\ \A w \in Workers : workers[w] = IdleWorker /\ w \in acked
    /\ \E o \in DOMAIN orders :
          /\ orders[o].state = "PAID"
          /\ payCalls[o] = 0
          /\ TerminalRows(o) = {}

C35_PaymentOutsideTransactions ==
    /\ [](\A w \in Workers :
            workers[w].pc = "s2" =>
                /\ OrderExists(workers[w].orderId)
                /\ orders[workers[w].orderId].state = "PAYMENT_PENDING"
                /\ orders[workers[w].orderId].version = workers[w].version
                /\ \A x \in Workers :
                      workers[x].orderId = workers[w].orderId
                          => workers[x].pc # "s3tx")
    /\ [][payCalls' # payCalls =>
             /\ orders' = orders
             /\ outbox' = outbox
             /\ processed' = processed
             /\ \E w \in Workers : /\ workers[w].pc = "s2"
                                     /\ workers'[w].pc \in {"s3", "idle"}
                                     /\ payCalls'[workers[w].orderId] =
                                            payCalls[workers[w].orderId] + 1]_vars

\* C35 witness: a handler is at its payment call while another worker
\* handles a second delivery of the same event.
C35_Witness ==
    \E w, x \in Workers :
        /\ workers[w].pc = "s2"
        /\ x # w
        /\ Handling(x)
        /\ workers[x].orderId = workers[w].orderId

C37_OutcomeRowMatchesState ==
    /\ \A i \in Rows :
          /\ outbox[i].event_type = "OrderPaid" =>
                /\ OrderExists(outbox[i].aggregate_id)
                /\ orders[outbox[i].aggregate_id].state = "PAID"
          /\ outbox[i].event_type = "OrderFailed" =>
                /\ OrderExists(outbox[i].aggregate_id)
                /\ orders[outbox[i].aggregate_id].state = "FAILED"
    /\ \A o \in DOMAIN orders :
          /\ orders[o].state \in {"CREATED", "PAYMENT_PENDING"} =>
                TerminalRows(o) = {}
          /\ Cardinality(TerminalRows(o)) <= 1

\* C37 witness: an order is FAILED, its one outcome row is published, and
\* two deliveries of its OrderCreated event are acknowledged.
C37_Witness ==
    \E o \in DOMAIN orders :
        /\ orders[o].state = "FAILED"
        /\ Cardinality(Handled(o)) >= 2
        /\ \E i \in TerminalRows(o) : outbox[i].published

\* C38: every message of the log carries the event_id of a committed
\* outbox row.
C38_LogHoldsCommittedEvents ==
    \A j \in Msgs : \E i \in Rows : outbox[i].event_id = log[j].eventId

\* C38 witness: the log holds the message of a row the ingress committed
\* and the message of a row a STEP 3 transaction committed, after an error
\* was raised on the way.
C38_Witness ==
    \E j1, j2 \in Msgs :
        /\ outbox[RowOf(j1)].event_type = "OrderCreated"
        /\ outbox[RowOf(j2)].event_type \in {"OrderPaid", "OrderFailed"}
        /\ faults > 0

\* C39: whenever processed_events holds the event of an order and no
\* handler holds the order, the order is not CREATED.
C39_ProcessedMeansNotCreated ==
    \A o \in DOMAIN orders :
        (IsProcessed(reqs[o].eventId) /\ Quiet(o)) =>
            orders[o].state # "CREATED"
====
